---- MODULE Spec2Model ----
(***************************************************************************)
(* Magic-link booking backend: the booking store, the expiration policy,   *)
(* the lifecycle routes (/api/booking/...) and the token routes (/appt/...) *)
(* as a state machine.  Time is in milliseconds, as Date.now() gives it.   *)
(* Every awaited datastore call of a handler is one step; a handler with   *)
(* one awaited call is one action.                                         *)
(***************************************************************************)
EXTENDS Integers, Sequences, FiniteSets, TLC

(***************************************************************************)
(* Bounds of the model.                                                    *)
(***************************************************************************)
MaxTicks == 2
MaxRequests == 3
MaxInFlight == 2

(***************************************************************************)
(* Optional values (null / undefined) and JSON values of a request body.   *)
(***************************************************************************)
None == <<>>
Some(v) == <<v>>
IsSome(o) == o # <<>>
Get(o) == o[1]

JUndef == [t |-> "undefined", s |-> "", n |-> 0]
JStr(x) == [t |-> "string", s |-> x, n |-> 0]
JNum(x) == [t |-> "number", s |-> "", n |-> x]
\* JavaScript truthiness of a JSON value: undefined, "" and 0 are falsy
Truthy(j) == \/ j.t = "string" /\ j.s # ""
             \/ j.t = "number" /\ j.n # 0
\* what Prisma is handed for an optional field: undefined means "leave alone"
OptStr(j) == IF j.t = "string" THEN Some(j.s) ELSE None
OptNum(j) == IF j.t = "number" THEN Some(j.n) ELSE None
\* amounts of a request are counted in thousandths; the column payment_amount
\* is Decimal(10, 2) and keeps hundredths, rounding the third decimal
ToDecimal2(o) == IF IsSome(o) THEN Some((Get(o) + 5) \div 10) ELSE None

(***************************************************************************)
(* The characters of the strings that occur as inputs: regular expressions *)
(* and lengths are computed on them.                                       *)
(***************************************************************************)
TokA == "V1StGXR8_Z5j"
TokB == "k-9fQ2mZx0Lp"
TokLegacy == "legacyTok_01"
TokUnknown == "zzzzzzzzzzzz"
TokShort == "abc"

Chars(s) ==
  CASE s = "V1StGXR8_Z5j" -> <<"V","1","S","t","G","X","R","8","_","Z","5","j">>
    [] s = "k-9fQ2mZx0Lp" -> <<"k","-","9","f","Q","2","m","Z","x","0","L","p">>
    [] s = "legacyTok_01" -> <<"l","e","g","a","c","y","T","o","k","_","0","1">>
    [] s = "zzzzzzzzzzzz" -> <<"z","z","z","z","z","z","z","z","z","z","z","z">>
    [] s = "abc" -> <<"a","b","c">>
    [] s = "+1234567890" -> <<"+","1","2","3","4","5","6","7","8","9","0">>
    [] s = "Test User" -> <<"T","e","s","t"," ","U","s","e","r">>
    [] s = "X" -> <<"X">>
    [] s = "USD" -> <<"U","S","D">>
    [] s = "usd" -> <<"u","s","d">>
    [] s = "EUR" -> <<"E","U","R">>
    [] OTHER -> <<>>

Digits == {"0","1","2","3","4","5","6","7","8","9"}
UpperCase == {"A","B","C","D","E","F","G","H","I","J","K","L","M",
              "N","O","P","Q","R","S","T","U","V","W","X","Y","Z"}
LowerCase == {"a","b","c","d","e","f","g","h","i","j","k","l","m",
              "n","o","p","q","r","s","t","u","v","w","x","y","z"}
AllOf(cs, alphabet) == \A i \in 1..Len(cs) : cs[i] \in alphabet

(***************************************************************************)
(* Enumerations.                                                           *)
(***************************************************************************)
AppointmentType == {"CONSULTATION", "TUTORIAL", "ASSESSMENT", "GROUP_SESSION", "WORKSHOP"}
BookingStatus == {"PENDING_CONFIRMATION", "CONFIRMED", "CANCELLED", "COMPLETED"}
PaymentStatus == {"PENDING", "COMPLETED", "FAILED", "REFUNDED", "CANCELLED"}

(***************************************************************************)
(* Magic link policy (pure functions; t is the value of the clock read).   *)
(***************************************************************************)
\* mutant: no time to live at all
calculateMagicLinkExpiration_Now(t) == t
\* mutant: one minute instead of one hour
calculateMagicLinkExpiration_OneMinute(t) == t + 60 * 1000
calculateMagicLinkExpiration(t) == t + 60 * 60 * 1000

\* mutant: the null guard dropped; JavaScript compares a Date with null as with 0
isMagicLinkExpired_NoNullGuard(expirationDate, t) ==
  IF IsSome(expirationDate) THEN t > Get(expirationDate) ELSE t > 0
isMagicLinkExpired(expirationDate, t) ==
  IF ~IsSome(expirationDate) THEN FALSE ELSE t > Get(expirationDate)

\* Infinity is None
getTimeUntilExpiration(expirationDate, t) ==
  IF ~IsSome(expirationDate) THEN None
  ELSE LET timeRemaining == Get(expirationDate) - t
       IN  Some(IF timeRemaining > 0 THEN timeRemaining ELSE 0)

\* the text is kept as its parts: <<"h", hours, minutes>> is "{h}h {m}m"
formatTimeRemaining(expirationDate, t) ==
  IF ~IsSome(expirationDate) THEN <<"No expiration">>
  ELSE LET timeRemaining == Get(getTimeUntilExpiration(expirationDate, t))
           minutes == timeRemaining \div (1000 * 60)
           hours == minutes \div 60
       IN  IF timeRemaining = 0 THEN <<"Expired">>
           ELSE IF hours > 0 THEN <<"h", hours, minutes % 60>>
           ELSE <<"m", minutes>>

\* mutants: the check never made, made with >=, made with a minute of grace
magicApiExpired_Never(expiresAt, t) == FALSE
magicApiExpired_AtBoundary(expiresAt, t) == IsSome(expiresAt) /\ t >= Get(expiresAt)
magicApiExpired_WithGrace(expiresAt, t) ==
  IsSome(expiresAt) /\ t > Get(expiresAt) + 60 * 1000
\* the check written inline in GET /api/booking/magic/:magicLinkId
magicApiExpired(expiresAt, t) == IsSome(expiresAt) /\ t > Get(expiresAt)

\* the isExpired flag written inline in GET /api/booking/:id
\* mutant: the flag compared without the null guard
getByIdIsExpired_NoNullGuard(expiresAt, t) ==
  IF IsSome(expiresAt) THEN t > Get(expiresAt) ELSE t > 0
getByIdIsExpired(expiresAt, t) == (IsSome(expiresAt) /\ t > Get(expiresAt)) \/ FALSE

(***************************************************************************)
(* Validation middleware.  Each returns the list of error messages; the    *)
(* request goes on to the handler only when the list is empty.             *)
(***************************************************************************)
IfErr(cond, msg) == IF cond THEN <<msg>> ELSE <<>>

\* what new Date(string).getTime() gives: None is NaN
DateParse(s) ==
  CASE s = "1970-01-02T00:00:00.000Z" -> Some(24 * 60 * 60 * 1000)
    [] OTHER -> None

\* /^\+?[\d\s\-\(\)]+$/
PhonePattern(cs) ==
  LET rest == IF Len(cs) > 0 /\ cs[1] = "+" THEN Tail(cs) ELSE cs
  IN  Len(rest) >= 1 /\ AllOf(rest, Digits \cup {" ", "-", "(", ")"})

validateBookingRequest(body) ==
  LET userPhone == body.userPhone
      userName == body.userName
      appointmentType == body.appointmentType
      appointmentDate == body.appointmentDate
  IN  IfErr(~Truthy(userPhone) \/ userPhone.t # "string",
            "userPhone is required and must be a string")
      \o IfErr(~Truthy(userName) \/ userName.t # "string",
            "userName is required and must be a string")
      \o IfErr(~Truthy(appointmentType) \/ appointmentType.t # "string",
            "appointmentType is required and must be a string")
      \o IfErr(~Truthy(appointmentDate) \/ appointmentDate.t # "string",
            "appointmentDate is required and must be a string")
      \o IfErr(Truthy(userPhone) /\ userPhone.t = "string" /\ ~PhonePattern(Chars(userPhone.s)),
            "userPhone must be a valid phone number format")
      \o IfErr(Truthy(appointmentDate) /\ appointmentDate.t = "string"
                 /\ ~IsSome(DateParse(appointmentDate.s)),
            "appointmentDate must be a valid ISO 8601 date string")
      \o IfErr(Truthy(appointmentType)
                 /\ ~(appointmentType.t = "string" /\ appointmentType.s \in AppointmentType),
            "appointmentType must be one of: ...")
      \o IfErr(Truthy(userName) /\ userName.t = "string"
                 /\ (Len(Chars(userName.s)) < 2 \/ Len(Chars(userName.s)) > 100),
            "userName must be between 2 and 100 characters")

\* mutant: the field checks without the business rules
validatePaymentStatusUpdate_FieldChecksOnly(body) ==
  LET paymentStatus == body.paymentStatus
      paymentId == body.paymentId
      amount == body.amount
      currency == body.currency
  IN  IfErr(~Truthy(paymentStatus) \/ paymentStatus.t # "string",
            "paymentStatus is required and must be a string")
      \o IfErr(Truthy(paymentStatus)
                 /\ ~(paymentStatus.t = "string" /\ paymentStatus.s \in PaymentStatus),
            "paymentStatus must be one of: ...")
      \o IfErr(Truthy(paymentId) /\ paymentId.t # "string", "paymentId must be a string")
      \o IfErr(amount.t # "undefined" /\ (amount.t # "number" \/ amount.n < 0),
            "amount must be a positive number")
      \o IfErr(Truthy(currency) /\ currency.t # "string", "currency must be a string")
      \o IfErr(Truthy(currency) /\ currency.t = "string"
                 /\ ~(Len(Chars(currency.s)) = 3 /\ AllOf(Chars(currency.s), UpperCase)),
            "currency must be a valid 3-letter ISO 4217 currency code (e.g., USD, EUR)")
validatePaymentStatusUpdate(body) ==
  LET paymentStatus == body.paymentStatus
      paymentId == body.paymentId
      amount == body.amount
      currency == body.currency
  IN  IfErr(~Truthy(paymentStatus) \/ paymentStatus.t # "string",
            "paymentStatus is required and must be a string")
      \o IfErr(Truthy(paymentStatus)
                 /\ ~(paymentStatus.t = "string" /\ paymentStatus.s \in PaymentStatus),
            "paymentStatus must be one of: ...")
      \o IfErr(Truthy(paymentId) /\ paymentId.t # "string", "paymentId must be a string")
      \o IfErr(amount.t # "undefined" /\ (amount.t # "number" \/ amount.n < 0),
            "amount must be a positive number")
      \o IfErr(Truthy(currency) /\ currency.t # "string", "currency must be a string")
      \o IfErr(Truthy(currency) /\ currency.t = "string"
                 /\ ~(Len(Chars(currency.s)) = 3 /\ AllOf(Chars(currency.s), UpperCase)),
            "currency must be a valid 3-letter ISO 4217 currency code (e.g., USD, EUR)")
      \o IfErr(paymentStatus = JStr("COMPLETED") /\ ~Truthy(paymentId),
            "paymentId is required when payment status is completed")
      \o IfErr(paymentStatus = JStr("COMPLETED") /\ amount.t = "undefined",
            "amount is required when payment status is completed")
      \o IfErr(amount.t # "undefined" /\ ~Truthy(currency),
            "currency is required when amount is provided")

\* /^[A-Za-z0-9_-]{10,21}$/
nanoidPattern(cs) ==
  Len(cs) >= 10 /\ Len(cs) <= 21
    /\ AllOf(cs, UpperCase \cup LowerCase \cup Digits \cup {"_", "-"})

\* the middleware takes the parameter named "nanoid" from the route parameters;
\* params is the record of the parameters the matched route binds
validateNanoId(params) ==
  LET nanoid == IF "nanoid" \in DOMAIN params THEN Some(params["nanoid"]) ELSE None
  IN  IsSome(nanoid) /\ Get(nanoid) # "" /\ nanoidPattern(Chars(Get(nanoid)))

\* /^[0-9a-f]{8}-...$/ is abstracted: an id is an integer, a negative one is
\* a string that is no UUID
IsUuidSyntax(id) == id >= 0

(***************************************************************************)
(* The datastore: the bookings table keyed by id, and the analytics table  *)
(* in insertion order.                                                     *)
(***************************************************************************)
LegacyUuid == 0
UnknownUuid == 99
MalformedId == -1

NewBooking(uuid, bookingId, magicLinkId, body, magicLinkExpiresAt, t) ==
  [ id |-> uuid,
    bookingId |-> bookingId,
    magicLinkId |-> magicLinkId,
    userName |-> body.userName.s,
    userPhone |-> body.userPhone.s,
    appointmentType |-> body.appointmentType.s,
    appointmentDate |-> Get(DateParse(body.appointmentDate.s)),
    bookingDetails |-> IF Truthy(body.bookingDetails) THEN body.bookingDetails.s ELSE "{}",
    status |-> "PENDING_CONFIRMATION",
    paymentStatus |-> "PENDING",
    paymentId |-> None,
    paymentAmount |-> None,
    paymentCurrency |-> None,
    createdAt |-> t,
    confirmedAt |-> None,
    paymentUpdatedAt |-> None,
    lastAccessedAt |-> None,
    magicLinkExpiresAt |-> magicLinkExpiresAt,
    accessCount |-> 0 ]

\* a row written before the magic_link_expires_at column existed
LegacyBooking(status) ==
  [ NewBooking(LegacyUuid, <<0, 0>>, TokLegacy,
               [ userPhone |-> JStr("+1234567890"), userName |-> JStr("Test User"),
                 appointmentType |-> JStr("CONSULTATION"),
                 appointmentDate |-> JStr("1970-01-02T00:00:00.000Z"),
                 bookingDetails |-> JUndef ],
               None, 0)
    EXCEPT !.status = status ]

findByMagicLinkId(bk, magicLinkId) ==
  LET hit == {u \in DOMAIN bk : bk[u].magicLinkId = magicLinkId}
  IN  IF hit = {} THEN None ELSE Some(bk[CHOOSE u \in hit : TRUE])

findById(bk, id) == IF id \in DOMAIN bk THEN Some(bk[id]) ELSE None

\* mutant: only the index on magic_link_id
UniqueViolation_TokenOnly(bk, bookingId, magicLinkId) ==
  \E u \in DOMAIN bk : bk[u].magicLinkId = magicLinkId
\* the unique indexes on booking_id and magic_link_id
UniqueViolation(bk, bookingId, magicLinkId) ==
  \E u \in DOMAIN bk : bk[u].bookingId = bookingId \/ bk[u].magicLinkId = magicLinkId

\* mutant: the row the handler read written back whole, with the new count
AccessUpdate_WholeRow(row, snapshot, ts) ==
  [snapshot EXCEPT !.accessCount = row.accessCount + 1, !.lastAccessedAt = Some(ts)]
\* mutant: the access counted without its timestamp
AccessUpdate_CountOnly(row, snapshot, ts) ==
  [row EXCEPT !.accessCount = row.accessCount + 1]
\* mutant: the count written back from the row the handler read earlier
AccessUpdate_FromSnapshot(row, snapshot, ts) ==
  [row EXCEPT !.accessCount = snapshot.accessCount + 1, !.lastAccessedAt = Some(ts)]
\* mutant: the timestamp touched without counting the access
AccessUpdate_NoIncrement(row, snapshot, ts) ==
  [row EXCEPT !.lastAccessedAt = Some(ts)]
\* data: { accessCount: { increment: 1 }, lastAccessedAt: new Date() }: the
\* increment is applied by the store to the stored row
AccessUpdate(row, snapshot, ts) ==
  [row EXCEPT !.accessCount = row.accessCount + 1, !.lastAccessedAt = Some(ts)]

\* mutant: the status set without the timestamp
ConfirmUpdate_StatusOnly(row, ts) == [row EXCEPT !.status = "CONFIRMED"]
\* mutant: a confirmation renews the link
ConfirmUpdate_RenewLink(row, ts) ==
  [row EXCEPT !.status = "CONFIRMED", !.confirmedAt = Some(ts),
              !.magicLinkExpiresAt = Some(calculateMagicLinkExpiration(ts))]
\* mutant: the timestamp of the first confirmation kept
ConfirmUpdate_KeepFirstStamp(row, ts) ==
  [row EXCEPT !.status = "CONFIRMED",
              !.confirmedAt = IF IsSome(@) THEN @ ELSE Some(ts)]
ConfirmUpdate(row, ts) ==
  [row EXCEPT !.status = "CONFIRMED", !.confirmedAt = Some(ts)]

\* mutant: a completed payment completes the booking
PaymentUpdate_CompletesBooking(row, body, ts) ==
  [row EXCEPT !.paymentStatus = body.paymentStatus.s,
              !.paymentId = IF body.paymentId.t = "undefined" THEN @ ELSE OptStr(body.paymentId),
              !.paymentAmount = IF body.amount.t = "undefined" THEN @
                                ELSE ToDecimal2(OptNum(body.amount)),
              !.paymentCurrency = IF body.currency.t = "undefined" THEN @ ELSE OptStr(body.currency),
              !.paymentUpdatedAt = Some(ts),
              !.status = IF body.paymentStatus.s = "COMPLETED" THEN "COMPLETED" ELSE @]
\* mutant: a field the request leaves out is cleared
PaymentUpdate_ClearOmitted(row, body, ts) ==
  [row EXCEPT !.paymentStatus = body.paymentStatus.s,
              !.paymentId = OptStr(body.paymentId),
              !.paymentAmount = ToDecimal2(OptNum(body.amount)),
              !.paymentCurrency = OptStr(body.currency),
              !.paymentUpdatedAt = Some(ts)]
\* a field the request leaves undefined is not part of the update
PaymentUpdate(row, body, ts) ==
  [row EXCEPT !.paymentStatus = body.paymentStatus.s,
              !.paymentId = IF body.paymentId.t = "undefined" THEN @ ELSE OptStr(body.paymentId),
              !.paymentAmount = IF body.amount.t = "undefined" THEN @
                                ELSE ToDecimal2(OptNum(body.amount)),
              !.paymentCurrency = IF body.currency.t = "undefined" THEN @ ELSE OptStr(body.currency),
              !.paymentUpdatedAt = Some(ts)]

AnalyticsRow(bookingUuid, eventType, userAgent, ipAddress, t) ==
  [ bookingId |-> bookingUuid, eventType |-> eventType,
    userAgent |-> userAgent, ipAddress |-> ipAddress, timestamp |-> t ]

\* mutant: the rows of a deleted booking left behind
CascadeDelete_KeepRows(rows, uuid) == rows
\* onDelete: Cascade
CascadeDelete(rows, uuid) ==
  LET keep(r) == r.bookingId # uuid IN SelectSeq(rows, keep)

(***************************************************************************)
(* Responses.                                                              *)
(***************************************************************************)
BookingUrl(b) ==
  [ page |-> "booking", bookingId |-> Some(b.bookingId), status |-> b.status,
    payment_status |-> b.paymentStatus, source |-> "magic_link", reason |-> "" ]
ErrorUrl(reason) ==
  [ page |-> "error", bookingId |-> None, status |-> "",
    payment_status |-> "", source |-> "", reason |-> reason ]
MagicLinkUrl(magicLinkId) == <<"appt", magicLinkId>>

(***************************************************************************)
(* Inputs of the requests.                                                 *)
(***************************************************************************)
TickSteps == {1, 60 * 60 * 1000}
GenTokens == {TokA}
RandSuffixes == {1}
ReqTokens == GenTokens \cup {TokLegacy}
MiddlewareTokens == ReqTokens \cup {TokShort}
UserAgents == {Some("Mozilla/5.0")}
TrackEvents == {JUndef, JStr("page_view")}
LegacyStatuses == {"CANCELLED", "COMPLETED"}

ValidBody ==
  [ userPhone |-> JStr("+1234567890"), userName |-> JStr("Test User"),
    appointmentType |-> JStr("CONSULTATION"),
    appointmentDate |-> JStr("1970-01-02T00:00:00.000Z"), bookingDetails |-> JUndef ]
\* TEST_USER of test/api-test.js
TestUserBody == [ValidBody EXCEPT !.appointmentType = JStr("consultation")]
CreateBodies == {ValidBody, TestUserBody}

PayCompleted ==
  [ paymentStatus |-> JStr("COMPLETED"), paymentId |-> JStr("test_payment_123"),
    amount |-> JNum(99990), currency |-> JStr("USD") ]
PayFailed ==
  [ paymentStatus |-> JStr("FAILED"), paymentId |-> JUndef,
    amount |-> JUndef, currency |-> JUndef ]
PayCompletedBare == [PayFailed EXCEPT !.paymentStatus = JStr("COMPLETED")]
PayAmountNoCurrency == [PayFailed EXCEPT !.amount = JNum(500)]
\* paymentData of test/api-test.js
PayTestData == [PayCompleted EXCEPT !.paymentStatus = JStr("completed")]
PaymentBodies == {PayCompleted, PayFailed, PayCompletedBare, PayAmountNoCurrency, PayTestData}

\* the inputs of the booking lifecycle requests
LifecycleTokens == GenTokens \cup {TokB}
LifecycleSuffixes == RandSuffixes \cup {2}
PayCompletedNoId == [PayCompleted EXCEPT !.paymentId = JUndef]
PayCompletedNoAmount == [PayCompleted EXCEPT !.amount = JUndef, !.currency = JUndef]
PayRefundedOther ==
  [ paymentStatus |-> JStr("REFUNDED"), paymentId |-> JStr("refund_456"),
    amount |-> JNum(12346), currency |-> JStr("EUR") ]
LifecyclePaymentBodies ==
  PaymentBodies \cup {PayCompletedNoId, PayCompletedNoAmount, PayRefundedOther}

(***************************************************************************)
(* State.                                                                  *)
(***************************************************************************)
VARIABLES
  now,        \* the clock, in milliseconds
  ticks,      \* how often the clock has advanced
  bookings,   \* the bookings table: id -> row
  analytics,  \* the booking_analytics table, in insertion order
  inflight,   \* the handlers waiting on a store call: slot -> request
  last,       \* the response sent last
  nreq,       \* the number of requests received
  uuidSeq,    \* the next id the store generates
  succ        \* per booking id, the resolutions that ended in the success exit

vars == <<now, ticks, bookings, analytics, inflight, last, nreq, uuidSeq, succ>>

Slots == 1..MaxInFlight
Idle == [kind |-> "idle"]
FreeSlot ==
  CHOOSE s \in Slots :
    inflight[s].kind = "idle" /\ \A r \in Slots : r < s => inflight[r].kind # "idle"
HasFreeSlot == \E s \in Slots : inflight[s].kind = "idle"

Response(kind, status, location, data) ==
  [ kind |-> kind, status |-> status, location |-> location, data |-> data ]

Init ==
  /\ now = 0
  /\ ticks = 0
  /\ bookings \in {[u \in {} |-> 0]}
                    \cup {[u \in {LegacyUuid} |-> LegacyBooking(st)] : st \in LegacyStatuses}
  /\ analytics = <<>>
  /\ inflight = [s \in Slots |-> Idle]
  /\ last = Response("none", 0, None, None)
  /\ nreq = 0
  /\ uuidSeq = 1
  /\ succ = [u \in 0..MaxRequests |-> 0]

(***************************************************************************)
(* The clock.                                                              *)
(***************************************************************************)
Tick ==
  /\ ticks < MaxTicks
  /\ \E d \in TickSteps : now' = now + d
  /\ ticks' = ticks + 1
  /\ UNCHANGED <<bookings, analytics, inflight, last, nreq, uuidSeq, succ>>

(***************************************************************************)
(* POST /api/booking/create                                                *)
(***************************************************************************)
CreateBooking(body, rnd, magicLinkId) ==
  /\ nreq < MaxRequests
  /\ nreq' = nreq + 1
  /\ LET errors == validateBookingRequest(body)
         bookingId == <<now, rnd>>
         magicLinkExpiresAt == calculateMagicLinkExpiration(now)
         booking == NewBooking(uuidSeq, bookingId, magicLinkId, body,
                               Some(magicLinkExpiresAt), now)
     IN  IF errors # <<>>
         THEN /\ last' = Response("create", 400, None, Some(errors))
              /\ UNCHANGED <<bookings, uuidSeq>>
         ELSE IF UniqueViolation(bookings, bookingId, magicLinkId)
         THEN /\ last' = Response("create", 500, None, None)
              /\ UNCHANGED <<bookings, uuidSeq>>
         ELSE /\ bookings' = bookings @@ (uuidSeq :> booking)
              /\ uuidSeq' = uuidSeq + 1
              /\ last' = Response("create", 201, None,
                  Some([ bookingId |-> booking.bookingId,
                         uuid |-> booking.id,
                         magicLinkId |-> booking.magicLinkId,
                         magicLink |-> MagicLinkUrl(magicLinkId),
                         status |-> booking.status ]))
  /\ UNCHANGED <<now, ticks, analytics, inflight, succ>>

(***************************************************************************)
(* POST /api/booking/confirm/:uuid                                         *)
(***************************************************************************)
ConfirmBooking(uuid) ==
  /\ nreq < MaxRequests
  /\ nreq' = nreq + 1
  /\ IF ~IsUuidSyntax(uuid)
     THEN /\ last' = Response("confirm", 500, None, None)
          /\ UNCHANGED bookings
     ELSE IF uuid \notin DOMAIN bookings
     THEN \* "Record to update not found"
          /\ last' = Response("confirm", 404, None, None)
          /\ UNCHANGED bookings
     ELSE LET booking == ConfirmUpdate(bookings[uuid], now)
          IN  /\ bookings' = [bookings EXCEPT ![uuid] = booking]
              /\ last' = Response("confirm", 200, None,
                  Some([ bookingId |-> booking.bookingId,
                         uuid |-> booking.id,
                         status |-> booking.status ]))
  /\ UNCHANGED <<now, ticks, analytics, inflight, uuidSeq, succ>>

(***************************************************************************)
(* PUT /api/booking/payment/:uuid                                          *)
(***************************************************************************)
UpdatePayment(uuid, body) ==
  /\ nreq < MaxRequests
  /\ nreq' = nreq + 1
  /\ LET errors == validatePaymentStatusUpdate(body)
     IN  IF errors # <<>>
         THEN /\ last' = Response("payment", 400, None, Some(errors))
              /\ UNCHANGED bookings
         ELSE IF ~IsUuidSyntax(uuid)
         THEN /\ last' = Response("payment", 500, None, None)
              /\ UNCHANGED bookings
         ELSE IF uuid \notin DOMAIN bookings
         THEN /\ last' = Response("payment", 404, None, None)
              /\ UNCHANGED bookings
         ELSE LET booking == PaymentUpdate(bookings[uuid], body, now)
              IN  /\ bookings' = [bookings EXCEPT ![uuid] = booking]
                  /\ last' = Response("payment", 200, None,
                      Some([ bookingId |-> booking.bookingId,
                             uuid |-> booking.id,
                             paymentStatus |-> booking.paymentStatus ]))
  /\ UNCHANGED <<now, ticks, analytics, inflight, uuidSeq, succ>>

(***************************************************************************)
(* GET /api/booking/:id                                                    *)
(***************************************************************************)
GetById(id) ==
  /\ nreq < MaxRequests
  /\ nreq' = nreq + 1
  /\ LET found == findById(bookings, id)
     IN  IF ~IsUuidSyntax(id)
         THEN last' = Response("getById", 500, None, None)
         ELSE IF ~IsSome(found)
         THEN last' = Response("getById", 404, None, None)
         ELSE LET booking == Get(found)
              IN  last' = Response("getById", 200, None,
                  Some([ bookingId |-> booking.bookingId,
                         id |-> booking.id,
                         status |-> booking.status,
                         paymentStatus |-> booking.paymentStatus,
                         confirmedAt |-> booking.confirmedAt,
                         magicLinkId |-> booking.magicLinkId,
                         isExpired |-> getByIdIsExpired( booking.magicLinkExpiresAt, now) ]))
  /\ UNCHANGED <<now, ticks, bookings, analytics, inflight, uuidSeq, succ>>

(***************************************************************************)
(* GET /api/booking/magic/:magicLinkId                                     *)
(* MagicLookup: findUnique answers; the handler checks the expiration and  *)
(* issues the update.  MagicUpdate: the store applies the update and the   *)
(* handler responds.                                                       *)
(***************************************************************************)
BookingPayload(booking) ==
  [ bookingId |-> booking.bookingId, uuid |-> booking.id,
    status |-> booking.status, paymentStatus |-> booking.paymentStatus,
    confirmedAt |-> booking.confirmedAt, magicLinkId |-> booking.magicLinkId ]

MagicLookup(magicLinkId) ==
  /\ nreq < MaxRequests
  /\ HasFreeSlot
  /\ nreq' = nreq + 1
  /\ LET found == findByMagicLinkId(bookings, magicLinkId)
     IN  IF ~IsSome(found)
         THEN /\ last' = Response("magic", 404, None, None)
              /\ UNCHANGED inflight
         ELSE IF magicApiExpired(Get(found).magicLinkExpiresAt, now)
         THEN /\ last' = Response("magic", 410, None, None)
              /\ UNCHANGED inflight
         ELSE /\ inflight' = [inflight EXCEPT ![FreeSlot] =
                                [ kind |-> "magic", pc |-> "update", token |-> magicLinkId,
                                  booking |-> Get(found), ts |-> now ]]
              /\ UNCHANGED last
  /\ UNCHANGED <<now, ticks, bookings, analytics, uuidSeq, succ>>

MagicUpdate(s) ==
  /\ inflight[s].kind = "magic"
  /\ inflight[s].pc = "update"
  /\ LET req == inflight[s]
         booking == req.booking
     IN  IF booking.id \notin DOMAIN bookings
         THEN \* the row is gone: the update throws and the handler answers 500
              /\ last' = Response("magic", 500, None, None)
              /\ UNCHANGED <<bookings, succ>>
         ELSE /\ bookings' = [bookings EXCEPT ![booking.id] = AccessUpdate(@, booking, req.ts)]
              /\ succ' = [succ EXCEPT ![booking.id] = @ + 1]
              /\ last' = Response("magic", 200, None, Some(BookingPayload(booking)))
  /\ inflight' = [inflight EXCEPT ![s] = Idle]
  /\ UNCHANGED <<now, ticks, analytics, nreq, uuidSeq>>

(***************************************************************************)
(* GET /appt/:magicLinkId                                                  *)
(* RedirectLookup: findUnique answers and the handler issues the update.   *)
(* RedirectUpdate: the store applies it and the handler issues the         *)
(* analytics insert.  RedirectAnalytics: the insert is applied or fails,   *)
(* and the handler redirects.                                              *)
(***************************************************************************)
\* the redirect route has no expiration check
redirectExpired(expiresAt, t) == FALSE

RedirectLookup(magicLinkId, userAgent) ==
  /\ nreq < MaxRequests
  /\ HasFreeSlot
  /\ nreq' = nreq + 1
  /\ LET found == findByMagicLinkId(bookings, magicLinkId)
     IN  IF ~IsSome(found)
         THEN /\ last' = Response("redirect", 302, Some(ErrorUrl("not_found")), None)
              /\ UNCHANGED inflight
         ELSE IF redirectExpired(Get(found).magicLinkExpiresAt, now)
         THEN /\ last' = Response("redirect", 302, Some(ErrorUrl("expired")), None)
              /\ UNCHANGED inflight
         ELSE /\ inflight' = [inflight EXCEPT ![FreeSlot] =
                                [ kind |-> "redirect", pc |-> "update", token |-> magicLinkId,
                                  booking |-> Get(found), ts |-> now, userAgent |-> userAgent,
                                  updated |-> MalformedId ]]
              /\ UNCHANGED last
  /\ UNCHANGED <<now, ticks, bookings, analytics, uuidSeq, succ>>

RedirectUpdate(s) ==
  /\ inflight[s].kind = "redirect"
  /\ inflight[s].pc = "update"
  /\ LET req == inflight[s]
         row == findByMagicLinkId(bookings, req.token)
     IN  IF ~IsSome(row)
         THEN \* where: { magicLinkId } matches no row: the update throws
              /\ last' = Response("redirect", 302, Some(ErrorUrl("server_error")), None)
              /\ inflight' = [inflight EXCEPT ![s] = Idle]
              /\ UNCHANGED bookings
         ELSE /\ bookings' = [bookings EXCEPT ![Get(row).id] =
                                AccessUpdate(@, req.booking, req.ts)]
              /\ inflight' = [inflight EXCEPT ![s].pc = "analytics",
                                              ![s].updated = Get(row).id]
              /\ UNCHANGED last
  /\ UNCHANGED <<now, ticks, analytics, nreq, uuidSeq, succ>>

\* mutant: the insert outside its own try, so that its failure reaches the
\* handler's catch
redirectAfterAnalytics_Unguarded(booking, inserted) ==
  IF inserted THEN BookingUrl(booking) ELSE ErrorUrl("server_error")
\* the insert sits in a try of its own, whose catch only warns; the handler
\* goes on to the redirect either way
redirectAfterAnalytics(booking, inserted) == BookingUrl(booking)

RedirectAnalytics(s, storeOk) ==
  /\ inflight[s].kind = "redirect"
  /\ inflight[s].pc = "analytics"
  /\ LET req == inflight[s]
         inserted == storeOk /\ req.booking.id \in DOMAIN bookings
     IN  /\ analytics' = IF inserted
                         THEN Append(analytics,
                                     AnalyticsRow(req.booking.id, "magic_link_click",
                                                  req.userAgent, Some("127.0.0.1"), now))
                         ELSE analytics
         /\ last' = Response("redirect", 302,
                             Some(redirectAfterAnalytics(req.booking, inserted)), None)
         /\ succ' = [succ EXCEPT ![req.updated] = @ + 1]
  /\ inflight' = [inflight EXCEPT ![s] = Idle]
  /\ UNCHANGED <<now, ticks, bookings, nreq, uuidSeq>>

(***************************************************************************)
(* GET /appt/:magicLinkId/preview, POST /appt/:magicLinkId/track and       *)
(* GET /appt/:magicLinkId/analytics, each behind validateNanoId.           *)
(***************************************************************************)
RouteParams(magicLinkId) == [magicLinkId |-> magicLinkId]

Preview(magicLinkId) ==
  /\ nreq < MaxRequests
  /\ nreq' = nreq + 1
  /\ LET found == findByMagicLinkId(bookings, magicLinkId)
     IN  IF ~validateNanoId(RouteParams(magicLinkId))
         THEN last' = Response("preview", 400, None, None)
         ELSE IF ~IsSome(found)
         THEN last' = Response("preview", 404, None, None)
         ELSE LET booking == Get(found)
              IN  last' = Response("preview", 200, None,
                  Some([ uuid |-> booking.id,
                         bookingId |-> booking.bookingId,
                         status |-> booking.status,
                         paymentStatus |-> booking.paymentStatus,
                         redirectUrl |-> BookingUrl(booking),
                         magicLink |-> MagicLinkUrl(magicLinkId) ]))
  /\ UNCHANGED <<now, ticks, bookings, analytics, inflight, uuidSeq, succ>>

Track(magicLinkId, event, userAgent) ==
  /\ nreq < MaxRequests
  /\ nreq' = nreq + 1
  /\ LET found == findByMagicLinkId(bookings, magicLinkId)
     IN  IF ~validateNanoId(RouteParams(magicLinkId))
         THEN /\ last' = Response("track", 400, None, None)
              /\ UNCHANGED analytics
         ELSE IF ~IsSome(found)
         THEN /\ last' = Response("track", 404, None, None)
              /\ UNCHANGED analytics
         ELSE /\ analytics' = Append(analytics,
                                AnalyticsRow(Get(found).id,
                                             IF Truthy(event) THEN event.s ELSE "interaction",
                                             userAgent, Some("127.0.0.1"), now))
              /\ last' = Response("track", 200, None, None)
  /\ UNCHANGED <<now, ticks, bookings, inflight, uuidSeq, succ>>

\* orderBy: { timestamp: 'desc' }, take: 50
RECURSIVE InsertDesc(_, _)
InsertDesc(sorted, r) ==
  IF sorted = <<>> THEN <<r>>
  ELSE IF r.timestamp > Head(sorted).timestamp THEN <<r>> \o sorted
  ELSE <<Head(sorted)>> \o InsertDesc(Tail(sorted), r)
RECURSIVE OrderByTimestampDesc(_)
OrderByTimestampDesc(rows) ==
  IF rows = <<>> THEN <<>>
  ELSE InsertDesc(OrderByTimestampDesc(Tail(rows)), Head(rows))
Take(rows, n) == SubSeq(rows, 1, IF Len(rows) < n THEN Len(rows) ELSE n)
RecentAnalytics(rows, uuid) ==
  LET own(r) == r.bookingId = uuid
  IN  Take(OrderByTimestampDesc(SelectSeq(rows, own)), 50)

GetAnalytics(magicLinkId) ==
  /\ nreq < MaxRequests
  /\ nreq' = nreq + 1
  /\ LET found == findByMagicLinkId(bookings, magicLinkId)
     IN  IF ~validateNanoId(RouteParams(magicLinkId))
         THEN last' = Response("analytics", 400, None, None)
         ELSE IF ~IsSome(found)
         THEN last' = Response("analytics", 404, None, None)
         ELSE last' = Response("analytics", 200, None,
             Some([ bookingId |-> Get(found).bookingId,
                    accessCount |-> Get(found).accessCount,
                    lastAccessedAt |-> Get(found).lastAccessedAt,
                    analytics |-> RecentAnalytics(analytics, Get(found).id) ]))
  /\ UNCHANGED <<now, ticks, bookings, analytics, inflight, uuidSeq, succ>>

(***************************************************************************)
(* Administrative deletion of a booking: its analytics rows go with it.    *)
(***************************************************************************)
AdminDelete(uuid) ==
  /\ nreq < MaxRequests
  /\ nreq' = nreq + 1
  /\ uuid \in DOMAIN bookings
  /\ bookings' = [u \in DOMAIN bookings \ {uuid} |-> bookings[u]]
  /\ analytics' = CascadeDelete(analytics, uuid)
  /\ UNCHANGED <<now, ticks, inflight, last, uuidSeq, succ>>

(***************************************************************************)
(* The system.                                                             *)
(***************************************************************************)
ReqIds == DOMAIN bookings \cup {UnknownUuid, MalformedId}

Next ==
  \/ Tick
  \/ \E body \in CreateBodies, rnd \in RandSuffixes, t \in GenTokens : CreateBooking(body, rnd, t)
  \/ \E id \in ReqIds : ConfirmBooking(id)
  \/ \E id \in ReqIds, body \in PaymentBodies : UpdatePayment(id, body)
  \/ \E id \in ReqIds : GetById(id)
  \/ \E t \in ReqTokens : MagicLookup(t)
  \/ \E s \in Slots : MagicUpdate(s)
  \/ \E t \in ReqTokens, ua \in UserAgents : RedirectLookup(t, ua)
  \/ \E s \in Slots : RedirectUpdate(s)
  \/ \E s \in Slots, ok \in BOOLEAN : RedirectAnalytics(s, ok)
  \/ \E t \in MiddlewareTokens : Preview(t)
  \/ \E t \in MiddlewareTokens, ev \in TrackEvents, ua \in UserAgents : Track(t, ev, ua)
  \/ \E t \in MiddlewareTokens : GetAnalytics(t)
  \/ \E id \in DOMAIN bookings : AdminDelete(id)

Spec == Init /\ [][Next]_vars

\* the booking lifecycle routes alone, with more of their inputs
NextLifecycle ==
  \/ Tick
  \/ \E body \in CreateBodies, rnd \in LifecycleSuffixes, t \in LifecycleTokens :
       CreateBooking(body, rnd, t)
  \/ \E id \in ReqIds : ConfirmBooking(id)
  \/ \E id \in ReqIds, body \in LifecyclePaymentBodies : UpdatePayment(id, body)
  \/ \E id \in ReqIds : GetById(id)
  \/ \E id \in DOMAIN bookings : AdminDelete(id)

SpecLifecycle == Init /\ [][NextLifecycle]_vars

(***************************************************************************)
(* Properties.                                                             *)
(***************************************************************************)
Hour == 60 * 60 * 1000
Found(magicLinkId) == IsSome(findByMagicLinkId(bookings, magicLinkId))
Row(magicLinkId) == Get(findByMagicLinkId(bookings, magicLinkId))
\* "magicLinkExpiresAt is non-null and strictly before now"
PastExpiration(magicLinkId) ==
  /\ Found(magicLinkId)
  /\ IsSome(Row(magicLinkId).magicLinkExpiresAt)
  /\ Get(Row(magicLinkId).magicLinkExpiresAt) < now
\* the redirect requests whose update has been applied and whose redirect is not yet sent
Redirecting(uuid) ==
  {s \in Slots : inflight[s].kind = "redirect" /\ inflight[s].pc = "analytics"
                   /\ inflight[s].updated = uuid}
Resolving(uuid) ==
  {s \in Slots : inflight[s].kind \in {"redirect", "magic"} /\ inflight[s].booking.id = uuid}
OtherRowsUnchanged(uuid) ==
  /\ DOMAIN bookings' = DOMAIN bookings
  /\ \A u \in DOMAIN bookings \ {uuid} : bookings'[u] = bookings[u]
OnlyAccessFieldsChange(uuid) ==
  [bookings'[uuid] EXCEPT !.accessCount = 0, !.lastAccessedAt = None]
    = [bookings[uuid] EXCEPT !.accessCount = 0, !.lastAccessedAt = None]

\* C1: a booking's accessCount is the number of resolutions of its token that
\* ended in the success exit on the redirect or magic-API path, plus the
\* redirects whose update is applied and whose response is still to be sent;
\* with none in flight it is exactly the number of successes, under every
\* interleaving of the resolutions.
C1_AccessCountIsSuccessCount ==
  \A u \in DOMAIN bookings :
    bookings[u].accessCount = succ[u] + Cardinality(Redirecting(u))
\* two resolutions of a created booking's token have both ended in success
C1_Witness ==
  \E u \in DOMAIN bookings :
    /\ u # LegacyUuid
    /\ succ[u] = 2
    /\ bookings[u].accessCount = 2
    /\ Resolving(u) = {}

C3_PreviewExpiredIsGone ==
  [][\A t \in MiddlewareTokens :
       (Preview(t) /\ PastExpiration(t))
         => (last'.kind = "preview" /\ last'.status = 410)]_vars

\* C4: the preview of the 12-character URL-safe token of an existing booking
\* that is not expired is answered with 200 and the booking's uuid, bookingId,
\* status, paymentStatus, the redirect URL and the magic-link URL.
C4_PreviewOfValidTokenIsOk ==
  [][\A t \in MiddlewareTokens :
       (/\ Preview(t)
        /\ Len(Chars(t)) = 12
        /\ nanoidPattern(Chars(t))
        /\ Found(t)
        /\ ~PastExpiration(t))
         => /\ last'.kind = "preview"
            /\ last'.status = 200
            /\ last'.data = Some([ uuid |-> Row(t).id,
                                   bookingId |-> Row(t).bookingId,
                                   status |-> Row(t).status,
                                   paymentStatus |-> Row(t).paymentStatus,
                                   redirectUrl |-> BookingUrl(Row(t)),
                                   magicLink |-> MagicLinkUrl(t) ])]_vars

\* C5: the redirect of an existing token whose magicLinkExpiresAt is non-null
\* and before now goes to /booking/error?reason=expired and issues no update
\* of accessCount.
C5_RedirectExpiredGoesToError ==
  [][\A t \in ReqTokens, ua \in UserAgents :
       (RedirectLookup(t, ua) /\ PastExpiration(t))
         => /\ last'.kind = "redirect"
            /\ last'.location = Some(ErrorUrl("expired"))
            /\ inflight' = inflight
            /\ bookings' = bookings]_vars

NotFoundExit(kind) ==
  /\ last'.kind = kind
  /\ IF kind = "redirect" THEN last'.location = Some(ErrorUrl("not_found"))
     ELSE last'.status = 404
  /\ inflight' = inflight
  /\ bookings' = bookings
  /\ analytics' = analytics
\* C6: a request with a well-formed token that matches no stored booking ends
\* in the not-found exit of its path (the not_found redirect, or 404) and
\* leaves the bookings and the analytics rows unchanged.
C6_UnknownTokenIsNotFound ==
  [][\A t \in ReqTokens :
       ~Found(t) =>
         /\ (\E ua \in UserAgents : RedirectLookup(t, ua)) => NotFoundExit("redirect")
         /\ MagicLookup(t) => NotFoundExit("magic")
         /\ Preview(t) => NotFoundExit("preview")
         /\ (\E ev \in TrackEvents, ua \in UserAgents : Track(t, ev, ua)) => NotFoundExit("track")
         /\ GetAnalytics(t) => NotFoundExit("analytics")]_vars

SuccessExit(r) ==
  \/ r.kind = "redirect" /\ IsSome(r.location) /\ Get(r.location).page = "booking"
  \/ r.kind \in {"preview", "magic"} /\ r.status = 200
\* C7 as claimed: every success exit of the redirect, preview and magic-API
\* paths performs the success step, of which the attempt to insert a
\* "magic_link_click" row is part: the response of a success exit is sent by
\* the step that made that attempt.
C7_EverySuccessAttemptsAnalytics ==
  [][(last' # last /\ SuccessExit(last'))
       => \E s \in Slots, ok \in BOOLEAN : RedirectAnalytics(s, ok)]_vars

AccessStep(uuid, ts) ==
  /\ bookings'[uuid].accessCount = bookings[uuid].accessCount + 1
  /\ bookings'[uuid].lastAccessedAt = Some(ts)
  /\ OnlyAccessFieldsChange(uuid)
  /\ OtherRowsUnchanged(uuid)
\* C7 as amended: the redirect path increments accessCount by one and sets
\* lastAccessedAt to the clock value its handler read, then attempts one
\* insert of a "magic_link_click" row and redirects to the booking; the
\* magic-API path increments accessCount by one and sets lastAccessedAt and
\* attempts no insert; the preview path writes nothing.
C7_SuccessStepPerPath ==
  [][/\ \A s \in Slots :
          (RedirectUpdate(s) /\ Found(inflight[s].token))
            => /\ AccessStep(Row(inflight[s].token).id, inflight[s].ts)
               /\ analytics' = analytics
               /\ inflight'[s].pc = "analytics"
     /\ \A s \in Slots, ok \in BOOLEAN :
          RedirectAnalytics(s, ok)
            => /\ SuccessExit(last')
               /\ last'.location = Some(BookingUrl(inflight[s].booking))
               /\ bookings' = bookings
               /\ \/ analytics' = analytics
                  \/ /\ Len(analytics') = Len(analytics) + 1
                     /\ SubSeq(analytics', 1, Len(analytics)) = analytics
                     /\ analytics'[Len(analytics')].eventType = "magic_link_click"
                     /\ analytics'[Len(analytics')].bookingId = inflight[s].booking.id
     /\ \A s \in Slots :
          (MagicUpdate(s) /\ inflight[s].booking.id \in DOMAIN bookings)
            => /\ AccessStep(inflight[s].booking.id, inflight[s].ts)
               /\ analytics' = analytics
               /\ last'.kind = "magic"
               /\ last'.status = 200
     /\ \A t \in MiddlewareTokens :
          Preview(t) => (bookings' = bookings /\ analytics' = analytics)]_vars
\* both writing paths have reached their success exit, the redirect with its row inserted
C7_Witness ==
  /\ last.kind = "magic"
  /\ last.status = 200
  /\ \E u \in DOMAIN bookings :
       /\ bookings[u].accessCount = 2
       /\ \E i \in 1..Len(analytics) :
            analytics[i].bookingId = u /\ analytics[i].eventType = "magic_link_click"

NoExpiration(uuid) == uuid \in DOMAIN bookings /\ ~IsSome(bookings[uuid].magicLinkExpiresAt)

\* C8: a booking without magicLinkExpiresAt is not expired at any clock value:
\* isMagicLinkExpired(null) is false, the magic-API lookup does not answer 410
\* and issues its update, and GET /api/booking/:id reports isExpired = false.
C8_NullNeverExpires ==
  /\ [](isMagicLinkExpired(None, now) = FALSE)
  /\ [][/\ \A t \in ReqTokens :
             (MagicLookup(t) /\ Found(t) /\ NoExpiration(Row(t).id))
               => /\ last' = last
                  /\ \E s \in Slots : /\ inflight[s].kind = "idle"
                                      /\ inflight'[s].kind = "magic"
                                      /\ inflight'[s].booking = Row(t)
        /\ \A id \in ReqIds :
             (GetById(id) /\ NoExpiration(id))
               => /\ last'.kind = "getById"
                  /\ last'.status = 200
                  /\ Get(last'.data).isExpired = FALSE]_vars
\* long after its creation the legacy row has been resolved on the magic-API path
C8_Witness ==
  /\ NoExpiration(LegacyUuid)
  /\ now > Hour
  /\ last.kind = "magic"
  /\ last.status = 200
  /\ bookings[LegacyUuid].lastAccessedAt = Some(now)

\* C9: for a non-null expiration t the link is expired exactly when now > t,
\* and not at now = t, for isMagicLinkExpired and for the magic-API lookup.
C9_ExpiredIffPast ==
  /\ [](\A t \in {now - 1, now, now + 1} : isMagicLinkExpired(Some(t), now) <=> now > t)
  /\ [][\A t \in ReqTokens :
          (MagicLookup(t) /\ Found(t) /\ IsSome(Row(t).magicLinkExpiresAt))
            => IF now > Get(Row(t).magicLinkExpiresAt)
               THEN last'.kind = "magic" /\ last'.status = 410 /\ inflight' = inflight
               ELSE last' = last /\ inflight' # inflight]_vars
\* a magic-API lookup at now = magicLinkExpiresAt has gone on to its update
C9_Witness ==
  \E s \in Slots :
    /\ inflight[s].kind = "magic"
    /\ inflight[s].booking.magicLinkExpiresAt = Some(inflight[s].ts)

\* C10: a valid create whose identifiers collide with no stored row stores one
\* new row with status PENDING_CONFIRMATION, paymentStatus PENDING, accessCount
\* 0, no confirmedAt, no lastAccessedAt and magicLinkExpiresAt = now + 1 hour,
\* and answers 201 with bookingId, uuid, magicLinkId, magicLink and status.
C10_CreateStoresPendingBooking ==
  [][\A body \in CreateBodies, rnd \in RandSuffixes, t \in GenTokens :
       (/\ CreateBooking(body, rnd, t)
        /\ validateBookingRequest(body) = <<>>
        /\ ~UniqueViolation(bookings, <<now, rnd>>, t))
         => /\ uuidSeq \notin DOMAIN bookings
            /\ DOMAIN bookings' = DOMAIN bookings \cup {uuidSeq}
            /\ \A u \in DOMAIN bookings : bookings'[u] = bookings[u]
            /\ LET b == bookings'[uuidSeq]
               IN  /\ b.status = "PENDING_CONFIRMATION"
                   /\ b.paymentStatus = "PENDING"
                   /\ b.accessCount = 0
                   /\ b.confirmedAt = None
                   /\ b.lastAccessedAt = None
                   /\ b.magicLinkExpiresAt = Some(now + Hour)
                   /\ b.magicLinkId = t
                   /\ last' = Response("create", 201, None,
                                       Some([ bookingId |-> b.bookingId, uuid |-> uuidSeq,
                                              magicLinkId |-> t,
                                              magicLink |-> MagicLinkUrl(t),
                                              status |-> "PENDING_CONFIRMATION" ]))]_vars
\* a booking has been created after the clock has advanced
C10_Witness ==
  /\ last.kind = "create"
  /\ last.status = 201
  /\ now > 0
  /\ \E u \in DOMAIN bookings : bookings[u].createdAt = now

\* C11: no two stored bookings share a bookingId and no two share a magic-link
\* token, so two creates with identical input that both succeed have stored
\* different bookingIds and tokens; a create whose generated bookingId or
\* token is that of a stored booking stores nothing.
C11_IdentifiersUnique ==
  /\ [](\A u \in DOMAIN bookings, v \in DOMAIN bookings :
          u # v => /\ bookings[u].bookingId # bookings[v].bookingId
                   /\ bookings[u].magicLinkId # bookings[v].magicLinkId)
  /\ [][\A body \in CreateBodies, rnd \in LifecycleSuffixes, t \in LifecycleTokens :
          (CreateBooking(body, rnd, t) /\ UniqueViolation(bookings, <<now, rnd>>, t))
            => (bookings' = bookings /\ uuidSeq' = uuidSeq)]_vars
\* two creates with the same body at the same clock value are stored, and a
\* third create has collided
C11_Witness ==
  /\ last.kind = "create"
  /\ last.status = 500
  /\ \E u \in DOMAIN bookings, v \in DOMAIN bookings :
       /\ u # v /\ u # LegacyUuid /\ v # LegacyUuid
       /\ bookings[u].createdAt = bookings[v].createdAt
       /\ bookings[u].userName = bookings[v].userName

\* C12: confirm on a stored booking succeeds whatever its status: the booking
\* then has status CONFIRMED and confirmedAt = the clock value of the call
\* (replacing an earlier confirmedAt), nothing else of the store changes, and
\* the answer is 200 with bookingId, uuid and status CONFIRMED.
C12_ConfirmFromAnyStatus ==
  [][\A id \in ReqIds :
       (ConfirmBooking(id) /\ id \in DOMAIN bookings)
         => /\ bookings[id].status \in BookingStatus
            /\ bookings' = [bookings EXCEPT ![id].status = "CONFIRMED",
                                            ![id].confirmedAt = Some(now)]
            /\ analytics' = analytics
            /\ last' = Response("confirm", 200, None,
                                Some([ bookingId |-> bookings[id].bookingId, uuid |-> id,
                                       status |-> "CONFIRMED" ]))]_vars
\* the row stored as CANCELLED or COMPLETED has been confirmed after the clock advanced
C12_Witness ==
  /\ LegacyUuid \in DOMAIN bookings
  /\ bookings[LegacyUuid].status = "CONFIRMED"
  /\ bookings[LegacyUuid].confirmedAt = Some(now)
  /\ now > 0
  /\ last.kind = "confirm"
  /\ last.status = 200

NotFoundAnswer(kind) ==
  /\ last'.kind = kind
  /\ last'.status = 404
  /\ bookings' = bookings
  /\ analytics' = analytics
\* C13: confirm, a valid payment update and getById with an id that matches no
\* stored booking are each answered 404, and leave the bookings and the
\* analytics rows unchanged.
C13_UnknownIdIsNotFound ==
  [][\A id \in ReqIds \ DOMAIN bookings :
       /\ ConfirmBooking(id) => NotFoundAnswer("confirm")
       /\ \A body \in LifecyclePaymentBodies :
            (UpdatePayment(id, body) /\ validatePaymentStatusUpdate(body) = <<>>)
              => NotFoundAnswer("payment")
       /\ GetById(id) => NotFoundAnswer("getById")]_vars

\* a payment update that passed validation and found its row
PaymentSucceeds(id, body) ==
  /\ UpdatePayment(id, body)
  /\ validatePaymentStatusUpdate(body) = <<>>
  /\ id \in DOMAIN bookings
Given(j) == j.t # "undefined"
OnlyPaymentFieldsChange(id) ==
  /\ DOMAIN bookings' = DOMAIN bookings
  /\ \A u \in DOMAIN bookings : u # id => bookings'[u] = bookings[u]
  /\ [bookings'[id] EXCEPT !.paymentStatus = bookings[id].paymentStatus,
                           !.paymentId = bookings[id].paymentId,
                           !.paymentAmount = bookings[id].paymentAmount,
                           !.paymentCurrency = bookings[id].paymentCurrency,
                           !.paymentUpdatedAt = bookings[id].paymentUpdatedAt] = bookings[id]

\* C14 as stated: after a successful payment update every stored payment
\* field is the value of this request, so a field the request leaves out does
\* not keep its earlier value, and the amount is stored as it was sent.
C14_PaymentFieldsAreTheRequests ==
  [][\A id \in ReqIds, body \in LifecyclePaymentBodies :
       PaymentSucceeds(id, body)
         => /\ bookings'[id].paymentStatus = body.paymentStatus.s
            /\ bookings'[id].paymentId = OptStr(body.paymentId)
            /\ bookings'[id].paymentAmount = OptNum(body.amount)
            /\ bookings'[id].paymentCurrency = OptStr(body.currency)
            /\ bookings'[id].paymentUpdatedAt = Some(now)]_vars

\* C14: after a successful payment update the stored paymentStatus is the
\* request's and paymentUpdatedAt is the clock value of the call; paymentId and
\* paymentCurrency are the request's when the request gives them and keep
\* their stored value when it leaves them out; paymentAmount is the request's
\* amount rounded to two decimals when given and keeps its stored value
\* otherwise; nothing else of the store changes.
C14_PaymentFieldsGivenOrKept ==
  [][\A id \in ReqIds, body \in LifecyclePaymentBodies :
       PaymentSucceeds(id, body)
         => /\ bookings'[id].paymentStatus = body.paymentStatus.s
            /\ bookings'[id].paymentUpdatedAt = Some(now)
            /\ bookings'[id].paymentId =
                 IF Given(body.paymentId) THEN Some(body.paymentId.s)
                 ELSE bookings[id].paymentId
            /\ bookings'[id].paymentCurrency =
                 IF Given(body.currency) THEN Some(body.currency.s)
                 ELSE bookings[id].paymentCurrency
            /\ bookings'[id].paymentAmount =
                 IF Given(body.amount) THEN Some((body.amount.n + 5) \div 10)
                 ELSE bookings[id].paymentAmount
            /\ OnlyPaymentFieldsChange(id)
            /\ analytics' = analytics
            /\ last'.kind = "payment" /\ last'.status = 200]_vars
\* a FAILED update without payment fields came after a COMPLETED one
C14_Witness ==
  /\ last.kind = "payment" /\ last.status = 200
  /\ \E u \in DOMAIN bookings :
       /\ bookings[u].paymentStatus = "FAILED"
       /\ bookings[u].paymentId = Some("test_payment_123")
       /\ bookings[u].paymentAmount = Some(9999)
       /\ bookings[u].paymentUpdatedAt = Some(now)
       /\ now > 0

LacksRequiredField(body) ==
  \/ body.paymentStatus = JStr("COMPLETED") /\ ~Given(body.paymentId)
  \/ body.paymentStatus = JStr("COMPLETED") /\ ~Given(body.amount)
  \/ Given(body.amount) /\ ~Given(body.currency)
HasError(msg) ==
  /\ IsSome(last.data)
  /\ \E i \in DOMAIN Get(last.data) : Get(last.data)[i] = msg

\* C15: a payment update with status COMPLETED and no paymentId, or COMPLETED
\* and no amount, or an amount and no currency, is answered 400 by validation
\* before any store operation: no booking changes (payment fields and
\* paymentUpdatedAt included), whatever the id.
C15_BusinessRulesRejectBeforeStore ==
  [][\A id \in ReqIds, body \in LifecyclePaymentBodies :
       (UpdatePayment(id, body) /\ LacksRequiredField(body))
         => /\ last'.kind = "payment" /\ last'.status = 400
            /\ validatePaymentStatusUpdate(body) # <<>>
            /\ bookings' = bookings
            /\ analytics' = analytics
            /\ inflight' = inflight]_vars
\* a rejected update met a booking whose payment fields an earlier update wrote
C15_Witness ==
  /\ last.kind = "payment" /\ last.status = 400
  /\ HasError("currency is required when amount is provided")
  /\ ~HasError("paymentId is required when payment status is completed")
  /\ \E u \in DOMAIN bookings :
       /\ bookings[u].paymentStatus = "COMPLETED"
       /\ IsSome(bookings[u].paymentUpdatedAt)

\* C16: the requests of the repository's API test pass validation and reach
\* the store: the create with appointmentType 'consultation' is answered 201
\* with the booking stored, and the payment update with paymentStatus
\* 'completed' on a stored booking is answered 200.
C16_TestRequestsAccepted ==
  [][/\ \A rnd \in LifecycleSuffixes, t \in LifecycleTokens :
          (CreateBooking(TestUserBody, rnd, t)
             /\ ~UniqueViolation(bookings, <<now, rnd>>, t))
            => /\ last'.kind = "create" /\ last'.status = 201
               /\ uuidSeq \in DOMAIN bookings'
     /\ \A id \in DOMAIN bookings :
          UpdatePayment(id, PayTestData)
            => /\ last'.kind = "payment" /\ last'.status = 200
               /\ bookings'[id].paymentUpdatedAt = Some(now)]_vars

\* C17: GET /api/booking/:id on a stored booking changes no booking and
\* inserts no analytics row, and the isExpired flag of its answer equals
\* isMagicLinkExpired(magicLinkExpiresAt) at the same clock value, for a null
\* and a non-null magicLinkExpiresAt.
C17_GetByIdReadsOnly ==
  [][\A id \in ReqIds :
       GetById(id)
         => /\ bookings' = bookings
            /\ analytics' = analytics
            /\ inflight' = inflight
            /\ id \in DOMAIN bookings
                 => /\ last'.kind = "getById" /\ last'.status = 200
                    /\ Get(last'.data).id = id
                    /\ Get(last'.data).isExpired
                         = isMagicLinkExpired(bookings[id].magicLinkExpiresAt, now)]_vars
\* the flag was TRUE for a created booking, while a booking without expiration
\* is stored and the clock is past 0
C17_Witness ==
  /\ last.kind = "getById" /\ last.status = 200
  /\ Get(last.data).isExpired
  /\ \E u \in DOMAIN bookings : ~IsSome(bookings[u].magicLinkExpiresAt)
\* the flag was FALSE for the booking without expiration, past clock value 0
C17_WitnessNull ==
  /\ last.kind = "getById" /\ last.status = 200
  /\ ~Get(last.data).isExpired
  /\ Get(last.data).id = LegacyUuid
  /\ now > 0

\* C18: when the analytics insert of the browser-redirect path fails, the
\* resolution does not: the accessCount increment made before it stays in the
\* store and the answer is the 302 redirect to the booking URL, not the
\* server_error redirect.
C18_AnalyticsFailureIsSwallowed ==
  [][\A s \in Slots, storeOk \in BOOLEAN :
       (RedirectAnalytics(s, storeOk) /\ analytics' = analytics)
         => /\ bookings' = bookings
            /\ last' = Response("redirect", 302, Some(BookingUrl(inflight[s].booking)), None)
            /\ last'.location # Some(ErrorUrl("server_error"))
            /\ inflight[s].updated \in DOMAIN bookings
                 => bookings'[inflight[s].updated].accessCount
                      >= inflight[s].booking.accessCount + 1]_vars
\* a redirect to the booking page was answered, the booking carries the
\* increment, and no analytics row exists
C18_Witness ==
  /\ last.kind = "redirect" /\ last.status = 302
  /\ analytics = <<>>
  /\ \E u \in DOMAIN bookings :
       /\ last.location = Some(BookingUrl(bookings[u]))
       /\ bookings[u].accessCount >= 1

RecordsExpiredAccess(uuid) ==
  /\ Len(analytics') = Len(analytics) + 1
  /\ analytics'[Len(analytics')].eventType = "magic_link_expired_access"
  /\ analytics'[Len(analytics')].bookingId = uuid

\* C19: an access to an expired magic link, by the browser redirect or by the
\* magic API, is recorded: an analytics row with eventType
\* "magic_link_expired_access", carrying user agent and IP address, is
\* inserted for that booking.
C19_ExpiredAccessIsRecorded ==
  [][\A t \in ReqTokens :
       /\ (MagicLookup(t) /\ PastExpiration(t)) => RecordsExpiredAccess(Row(t).id)
       /\ \A ua \in UserAgents :
            (RedirectLookup(t, ua) /\ PastExpiration(t))
              => /\ RecordsExpiredAccess(Row(t).id)
                 /\ analytics'[Len(analytics')].userAgent = ua
                 /\ IsSome(analytics'[Len(analytics')].ipAddress)]_vars

\* the bookings stored by create (the row of the seed has no expiration)
Created == DOMAIN bookings \ {LegacyUuid}

\* C20: for a booking stored by create at clock value c, formatTimeRemaining
\* of its magicLinkExpiresAt at now = c is neither "Expired" nor
\* "No expiration", and at every clock value in [c, c + 1 hour] the link is
\* not expired, for the Policy, the magic API and the isExpired flag alike.
C20_FreshLinkIsNotExpired ==
  /\ [][\A body \in CreateBodies, rnd \in RandSuffixes, t \in GenTokens :
          (CreateBooking(body, rnd, t) /\ uuidSeq \in DOMAIN bookings')
            => /\ bookings'[uuidSeq].createdAt = now
               /\ formatTimeRemaining(bookings'[uuidSeq].magicLinkExpiresAt, now)
                    \notin {<<"Expired">>, <<"No expiration">>}
               /\ formatTimeRemaining(bookings'[uuidSeq].magicLinkExpiresAt, now)
                    = <<"h", 1, 0>>]_vars
  /\ [](\A u \in Created :
          (bookings[u].createdAt <= now /\ now <= bookings[u].createdAt + Hour)
            => /\ ~isMagicLinkExpired(bookings[u].magicLinkExpiresAt, now)
               /\ ~magicApiExpired(bookings[u].magicLinkExpiresAt, now)
               /\ ~getByIdIsExpired(bookings[u].magicLinkExpiresAt, now))
\* a created booking exactly one hour after its creation
C20_Witness ==
  \E u \in Created :
    /\ now = bookings[u].createdAt + Hour
    /\ bookings[u].createdAt > 0
    /\ ~isMagicLinkExpired(bookings[u].magicLinkExpiresAt, now)

\* the bookings stored before and after a step
Surviving == DOMAIN bookings \cap DOMAIN bookings'

\* C21: in every step of every operation, and under every interleaving of
\* them, the accessCount of a stored booking does not decrease.
C21_AccessCountNeverDecreases ==
  [][\A u \in Surviving : bookings'[u].accessCount >= bookings[u].accessCount]_vars
\* a booking that was resolved more than once
C21_Witness ==
  \E u \in DOMAIN bookings : bookings[u].accessCount >= 2 /\ succ[u] >= 2

\* C22: magicLinkExpiresAt is written by create alone: no step changes it on
\* a stored booking, so a booking stored by create keeps createdAt + 1 hour
\* and a booking without expiration stays without one.
C22_ExpirationIsImmutable ==
  /\ [][\A u \in Surviving :
          bookings'[u].magicLinkExpiresAt = bookings[u].magicLinkExpiresAt]_vars
  /\ [](\A u \in Created :
          bookings[u].magicLinkExpiresAt = Some(bookings[u].createdAt + Hour))
  /\ [](LegacyUuid \in DOMAIN bookings => NoExpiration(LegacyUuid))
\* a created booking that was confirmed and resolved at a later clock value
C22_Witness ==
  \E u \in Created :
    /\ bookings[u].status = "CONFIRMED"
    /\ bookings[u].accessCount >= 1
    /\ Get(bookings[u].confirmedAt) > bookings[u].createdAt
    /\ Get(bookings[u].lastAccessedAt) > bookings[u].createdAt

StatusFields(row) == <<row.status, row.confirmedAt>>
PaymentFields(row) ==
  <<row.paymentStatus, row.paymentId, row.paymentAmount, row.paymentCurrency,
    row.paymentUpdatedAt>>
StatusFieldsUnchanged == \A u \in Surviving : StatusFields(bookings'[u]) = StatusFields(bookings[u])
PaymentFieldsUnchanged == \A u \in Surviving : PaymentFields(bookings'[u]) = PaymentFields(bookings[u])
ResolutionStep ==
  \/ \E t \in ReqTokens : MagicLookup(t)
  \/ \E s \in Slots : MagicUpdate(s)
  \/ \E t \in ReqTokens, ua \in UserAgents : RedirectLookup(t, ua)
  \/ \E s \in Slots : RedirectUpdate(s)
  \/ \E s \in Slots, ok \in BOOLEAN : RedirectAnalytics(s, ok)
  \/ \E t \in MiddlewareTokens : Preview(t)
PairReached(st, pst) ==
  \E u \in DOMAIN bookings : bookings[u].status = st /\ bookings[u].paymentStatus = pst

\* C23: status and paymentStatus change independently.  confirm leaves the
\* five payment fields unchanged and sets CONFIRMED whatever the
\* paymentStatus; a payment update leaves status and confirmedAt unchanged and
\* sets the request's paymentStatus whatever the status; a token resolution
\* leaves all of them unchanged.  Neither update is refused because of the
\* other machine's value, so the pairs the two machines reach alone are
\* reached together.
C23_StatusAndPaymentIndependent ==
  /\ [][\A id \in ReqIds :
          ConfirmBooking(id)
            => /\ PaymentFieldsUnchanged
               /\ id \in DOMAIN bookings => bookings'[id].status = "CONFIRMED"]_vars
  /\ [][\A id \in ReqIds, body \in PaymentBodies :
          UpdatePayment(id, body)
            => /\ StatusFieldsUnchanged
               /\ (id \in DOMAIN bookings /\ validatePaymentStatusUpdate(body) = <<>>)
                    => bookings'[id].paymentStatus = body.paymentStatus.s]_vars
  /\ [][ResolutionStep => (StatusFieldsUnchanged /\ PaymentFieldsUnchanged)]_vars
  /\ [](nreq < MaxRequests
          => \A u \in DOMAIN bookings :
               /\ ENABLED ConfirmBooking(u)
               /\ \A body \in PaymentBodies : ENABLED UpdatePayment(u, body))
\* a created booking confirmed with a failed payment, beside it a booking that
\* keeps a status no operation produces
C23_Witness ==
  /\ \E u \in Created :
       bookings[u].status = "CONFIRMED" /\ bookings[u].paymentStatus = "FAILED"
  /\ LegacyUuid \in DOMAIN bookings
  /\ bookings[LegacyUuid].status \in {"CANCELLED", "COMPLETED"}

\* C24: POST /appt/:magicLinkId/track with the token of a stored booking
\* appends exactly one analytics row for that booking, with the request's
\* event or "interaction" as eventType, answers 200, and changes no earlier
\* analytics row and no booking.
C24_TrackAppendsOneRow ==
  [][\A t \in MiddlewareTokens, ev \in TrackEvents, ua \in UserAgents :
       (Track(t, ev, ua) /\ Found(t))
         => /\ last'.kind = "track" /\ last'.status = 200
            /\ Len(analytics') = Len(analytics) + 1
            /\ SubSeq(analytics', 1, Len(analytics)) = analytics
            /\ analytics'[Len(analytics')].bookingId = Row(t).id
            /\ analytics'[Len(analytics')].eventType
                 = (IF Truthy(ev) THEN ev.s ELSE "interaction")
            /\ bookings' = bookings]_vars

\* C25: GET /appt/:magicLinkId/analytics with the token of a stored booking
\* answers 200 with that booking's analytics rows alone, most recent first,
\* at most 50 of them, and changes no stored state, so a repeated query
\* returns the same sequence.
C25_AnalyticsListsRecentFirst ==
  [][\A t \in MiddlewareTokens :
       (GetAnalytics(t) /\ Found(t))
         => /\ last'.kind = "analytics" /\ last'.status = 200
            /\ LET rows == Get(last'.data).analytics
               IN  /\ Len(rows) <= 50
                   /\ \A i \in DOMAIN rows : rows[i].bookingId = Row(t).id
                   /\ \A i, j \in DOMAIN rows :
                        i < j => rows[i].timestamp >= rows[j].timestamp
                   /\ Len(rows) = Len(RecentAnalytics(analytics, Row(t).id))
            /\ bookings' = bookings
            /\ analytics' = analytics]_vars

Expired(bk, uuid, t) ==
  IsSome(bk[uuid].magicLinkExpiresAt) /\ Get(bk[uuid].magicLinkExpiresAt) < t
\* the magic-API requests that have passed the expiration check and whose
\* update is still to be applied
PendingMagic(magicLinkId) ==
  {s \in Slots : inflight[s].kind = "magic" /\ inflight[s].pc = "update"
                   /\ inflight[s].token = magicLinkId}

\* C26 as stated: once the magic API has answered 410 for a token (the
\* bookings with an expiration are those of the tokens create generates),
\* every later magic-API answer for that token is 410 or 404, never 200, and
\* the magic-API path no longer changes the booking.
C26_NoSuccessAfterExpired ==
  [][(last.kind = "magic" /\ last.status = 410)
       => /\ \A t \in GenTokens :
               MagicLookup(t) => (last'.status \in {410, 404} /\ inflight' = inflight)
          /\ \A s \in Slots :
               (MagicUpdate(s) /\ inflight[s].token \in GenTokens)
                 => (last'.status # 200 /\ bookings' = bookings)]_vars

\* C26: with a non-decreasing clock, the magic API answers 410 only for a
\* booking past its expiration; a stored booking past its expiration stays so;
\* every magic-API lookup that finds it from then on answers 410 and issues no
\* update; and the magic-API path changes accessCount or lastAccessedAt after
\* that only by completing a resolution whose lookup was not past the
\* expiration.
C26_ExpiredLookupStaysExpired ==
  /\ [][now' >= now]_vars
  /\ [][\A t \in ReqTokens :
          (MagicLookup(t) /\ last'.kind = "magic" /\ last'.status = 410 /\ last' # last)
            => PastExpiration(t)]_vars
  /\ [][\A u \in Surviving : Expired(bookings, u, now) => Expired(bookings', u, now')]_vars
  /\ [][\A t \in ReqTokens :
          (MagicLookup(t) /\ PastExpiration(t))
            => (last'.status = 410 /\ PendingMagic(t)' = PendingMagic(t)
                  /\ bookings' = bookings)]_vars
  /\ [][\A s \in Slots :
          (MagicUpdate(s) /\ bookings' # bookings)
            => /\ inflight[s].ts <= now
               /\ ~Expired(bookings, inflight[s].booking.id, inflight[s].ts)]_vars
\* 410 was answered while an earlier resolution of the same token is pending
C26_Witness ==
  /\ last.kind = "magic" /\ last.status = 410
  /\ \E t \in GenTokens : PastExpiration(t) /\ PendingMagic(t) # {}

\* the redirect requests whose booking was deleted before their analytics insert
Orphaned ==
  {s \in Slots : inflight[s].kind = "redirect" /\ inflight[s].pc = "analytics"
                   /\ inflight[s].booking.id \notin DOMAIN bookings}

\* C27: in every reachable state every analytics row references a stored
\* booking; an insert that follows the deletion of its booking is rejected
\* and stores nothing.
C27_AnalyticsRowsHaveABooking ==
  /\ [](\A i \in DOMAIN analytics : analytics[i].bookingId \in DOMAIN bookings)
  /\ [][\A s \in Orphaned, ok \in BOOLEAN :
          RedirectAnalytics(s, ok) => analytics' = analytics]_vars
\* a booking was deleted between the update of a redirect and its insert
C27_Witness == Orphaned # {}

\* C28: for every booking stored by create, accessCount = 0 exactly when
\* lastAccessedAt is absent: create writes 0 and no timestamp, and both
\* resolution paths write the two fields in one store update.
C28_CountZeroIffNeverAccessed ==
  /\ [](\A u \in Created :
          (bookings[u].accessCount = 0) <=> ~IsSome(bookings[u].lastAccessedAt))
  /\ [][\A u \in Surviving :
          /\ (bookings'[u].lastAccessedAt # bookings[u].lastAccessedAt)
               => bookings'[u].accessCount = bookings[u].accessCount + 1
          /\ (bookings'[u].accessCount # bookings[u].accessCount)
               => /\ bookings'[u].accessCount = bookings[u].accessCount + 1
                  /\ IsSome(bookings'[u].lastAccessedAt)]_vars
\* a created booking resolved once, with another resolution of it in flight
C28_Witness ==
  \E u \in Created :
    /\ bookings[u].accessCount = 1
    /\ IsSome(bookings[u].lastAccessedAt)
    /\ Resolving(u) # {}

\* C29: a booking stored by create is PENDING_CONFIRMATION or CONFIRMED in
\* every reachable state, a CONFIRMED one does not return to
\* PENDING_CONFIRMATION, and it is CONFIRMED exactly when confirmedAt is
\* present.
C29_CreatedStatusMachine ==
  /\ [](\A u \in Created :
          /\ bookings[u].status \in {"PENDING_CONFIRMATION", "CONFIRMED"}
          /\ (bookings[u].status = "CONFIRMED") <=> IsSome(bookings[u].confirmedAt))
  /\ [][\A u \in Surviving \ {LegacyUuid} :
          bookings[u].status = "CONFIRMED" => bookings'[u].status = "CONFIRMED"]_vars
\* a created booking confirmed, then paid
C29_Witness ==
  \E u \in Created :
    /\ bookings[u].status = "CONFIRMED"
    /\ bookings[u].paymentStatus = "COMPLETED"
    /\ IsSome(bookings[u].paymentUpdatedAt) /\ IsSome(bookings[u].confirmedAt)
    /\ Get(bookings[u].paymentUpdatedAt) > Get(bookings[u].confirmedAt)

\* the clock values two concurrent calls may read
CallTimes == {now, now + 1}
ValidPaymentBodies == {body \in PaymentBodies : validatePaymentStatusUpdate(body) = <<>>}
\* the three updates applied to one row in either order; the resolution has
\* read the row before the other call wrote
Commute(row) ==
  \A body \in ValidPaymentBodies, tc \in CallTimes, tp \in CallTimes, ta \in CallTimes :
    /\ ConfirmUpdate(PaymentUpdate(row, body, tp), tc)
         = PaymentUpdate(ConfirmUpdate(row, tc), body, tp)
    /\ AccessUpdate(ConfirmUpdate(row, tc), row, ta)
         = ConfirmUpdate(AccessUpdate(row, row, ta), tc)
    /\ AccessUpdate(PaymentUpdate(row, body, tp), row, ta)
         = PaymentUpdate(AccessUpdate(row, row, ta), body, tp)
    /\ ConfirmUpdate(ConfirmUpdate(row, tp), tc) = ConfirmUpdate(row, tc)
    /\ StatusFields(ConfirmUpdate(PaymentUpdate(row, body, tp), tc))
         = StatusFields(ConfirmUpdate(row, tc))
    /\ PaymentFields(PaymentUpdate(ConfirmUpdate(row, tc), body, tp))
         = PaymentFields(PaymentUpdate(row, body, tp))

\* C30: confirm, the payment update and a token resolution write disjoint
\* fields of a booking through partial updates: on every stored row they
\* commute pairwise, and in every interleaving the update of a resolution
\* changes only accessCount and lastAccessedAt of the stored row, keeping what
\* confirm or a payment update wrote after the resolution read the row.
C30_UpdatesCommute ==
  /\ [](\A u \in DOMAIN bookings : Commute(bookings[u]))
  /\ [][\A s \in Slots :
          (MagicUpdate(s) \/ RedirectUpdate(s))
            => \A u \in Surviving :
                 [bookings'[u] EXCEPT !.accessCount = bookings[u].accessCount,
                                      !.lastAccessedAt = bookings[u].lastAccessedAt]
                   = bookings[u]]_vars
\* a resolution read the row, confirm wrote, and the resolution's update was
\* applied: its answer shows the status it read, the row keeps CONFIRMED
C30_Witness ==
  /\ last.kind = "magic" /\ last.status = 200
  /\ Get(last.data).status = "PENDING_CONFIRMATION"
  /\ \E u \in Created :
       /\ Get(last.data).uuid = u
       /\ bookings[u].status = "CONFIRMED"
       /\ bookings[u].accessCount = 1
====
